---- MODULE Spec2Model ----
(***************************************************************************)
(* quickpoeter-web: the session state of QuickpoeterApp (src/app/mod.rs),  *)
(* its frame handler `update`, the settings and theme panels, and the      *)
(* save / new (restore) pair, as a state machine.                          *)
(*                                                                         *)
(* Conventions                                                             *)
(*  - a Rust String is a sequence of one-character strings;                *)
(*  - Result<T, E> is a record [ok |-> BOOLEAN, val |-> T or E];           *)
(*  - Option<T> is <<>> (None) or <<x>> (Some(x));                         *)
(*  - Cyrillic literals of the source are transliterated to ASCII.         *)
(***************************************************************************)
EXTENDS Integers, Sequences, FiniteSets, TLC

VARIABLES
    rhyme_word,         \* QuickpoeterApp.rhyme_word        (serde skip)
    rhyme_output,       \* QuickpoeterApp.rhyme_output      (serde skip)
    show_settings,      \* QuickpoeterApp.show_settings     (serde skip)
    show_theme,         \* QuickpoeterApp.show_theme        (serde skip)
    general_settings,   \* QuickpoeterApp.general_settings  (serde skip)
    custom_theme_text,  \* QuickpoeterApp.custom_theme_text
    theme,              \* QuickpoeterApp.theme
    rps,                \* QuickpoeterApp.rps
    show_rhymes,        \* QuickpoeterApp.show_rhymes
    main_text,          \* QuickpoeterApp.main_text
    storage,            \* the eframe storage slot under APP_KEY
    alive,              \* FALSE once the process has panicked
    log,                \* collaborator calls made by the last frame, in order
    last,               \* what produced the current state: "new", "relaunch", "submit",
                        \* "reset", or "frame" for any other frame of update
    cache_highlight,    \* Highlighter.cache_highlight, most recently used first
    cache_words,        \* Highlighter.cache_words, most recently used first
    mode,               \* Highlighter.mode
    calls               \* the get_or_render calls made so far, in order

vars == <<rhyme_word, rhyme_output, show_settings, show_theme, general_settings,
          custom_theme_text, theme, rps, show_rhymes, main_text, storage,
          alive, log, last, cache_highlight, cache_words, mode, calls>>

\* the session of QuickpoeterApp, its storage and the bookkeeping of its frames
app_vars == <<rhyme_word, rhyme_output, show_settings, show_theme, general_settings,
              custom_theme_text, theme, rps, show_rhymes, main_text, storage,
              alive, log, last>>

\* the Highlighter and the record of its calls
highlighter_vars == <<cache_highlight, cache_words, mode, calls>>

(***************************************************************************)
(* Bounds of the model                                                     *)
(***************************************************************************)
\* longest text the user types into the custom theme box or the main editor
MaxLen == 3
\* how many edits (a slider, a flag, the limit, a typed character) the session
\* is away from its defaults at once, in the specifications that bound it
MaxEdits == 1
\* entries a cache of the Highlighter holds
Capacity == 2
\* get_or_render calls of one run
MaxCalls == 4

(***************************************************************************)
(* Strings                                                                 *)
(***************************************************************************)
Letters == {"a", "b"}
Whitespace == {" ", "\n"}
Chars == Letters \cup Whitespace

None == <<>>
Some(x) == <<x>>
Ok(v) == [ok |-> TRUE, val |-> v]
Err(e) == [ok |-> FALSE, val |-> e]

(***************************************************************************)
(* RemovePartsOfSpeech                                                     *)
(***************************************************************************)
Flags == {"noun", "adj", "pronoun", "pronoun_adj", "verb", "adv", "num", "num_adj",
          "linking", "citoslovce", "pred", "prep", "conj", "compare", "part", "misc"}

RemovePartsOfSpeechDefault == [f \in Flags |-> FALSE]

\* the add! macro of get_list
add(v, flag, name) == IF flag THEN Append(v, name) ELSE v

get_list_swapped(r) ==
    LET v0  == <<>>
        v1  == add(v0,  r.noun,        "s")
        v2  == add(v1,  r.adj,         "p")
        v3  == add(v2,  r.pronoun,     "ms")
        v4  == add(v3,  r.pronoun_adj, "ms-p")
        v5  == add(v4,  r.adv,         "n")
        v6  == add(v5,  r.verb,        "g")
        v7  == add(v6,  r.num,         "chisl")
        v8  == add(v7,  r.num_adj,     "chisl-p")
        v9  == add(v8,  r.linking,     "vvodn")
        v10 == add(v9,  r.citoslovce,  "mezhd")
        v11 == add(v10, r.pred,        "predik")
        v12 == add(v11, r.prep,        "predl")
        v13 == add(v12, r.conj,        "soyuz")
        v14 == add(v13, r.compare,     "sravn")
        v15 == add(v14, r.part,        "chast")
        v16 == add(v15, r.misc,        "?")
    IN  v16

\* codes: s p ms ms-p g n chisl chisl-p vvodn mezhd predik predl soyuz sravn chast ?
get_list(r) ==
    LET v0  == <<>>
        v1  == add(v0,  r.noun,        "s")
        v2  == add(v1,  r.adj,         "p")
        v3  == add(v2,  r.pronoun,     "ms")
        v4  == add(v3,  r.pronoun_adj, "ms-p")
        v5  == add(v4,  r.verb,        "g")
        v6  == add(v5,  r.adv,         "n")
        v7  == add(v6,  r.num,         "chisl")
        v8  == add(v7,  r.num_adj,     "chisl-p")
        v9  == add(v8,  r.linking,     "vvodn")
        v10 == add(v9,  r.citoslovce,  "mezhd")
        v11 == add(v10, r.pred,        "predik")
        v12 == add(v11, r.prep,        "predl")
        v13 == add(v12, r.conj,        "soyuz")
        v14 == add(v13, r.compare,     "sravn")
        v15 == add(v14, r.part,        "chast")
        v16 == add(v15, r.misc,        "?")
    IN  v16

(***************************************************************************)
(* GeneralSettings (the scoring configuration edited by the settings       *)
(* window): one entry per field the window binds a widget to.              *)
(* stresses.indexation is the checkbox: 0 is unchecked, 1 is checked.      *)
(***************************************************************************)
SettingFields ==
    {"stresses.indexation",
     "meaning.weight", "meaning.pow", "meaning.single_pow", "meaning.single_weight",
     "popularity.weight", "popularity.pow",
     "stresses.weight", "stresses.k_strict_stress", "stresses.k_not_strict_stress",
     "stresses.bad_rythm", "stresses.shift_syll_ending", "stresses.pow_syll_ending",
     "stresses.asympt", "stresses.asympt_shift",
     "consonant_structure.weight", "consonant_structure.pow",
     "consonant_structure.shift_syll_ending", "consonant_structure.pow_syll_ending",
     "consonant_structure.asympt", "consonant_structure.asympt_shift",
     "alliteration.weight", "alliteration.shift_coord", "alliteration.pow_coord_delta",
     "alliteration.shift_syll_ending", "alliteration.pow_syll_ending",
     "alliteration.permutations", "alliteration.asympt", "alliteration.asympt_shift",
     "misc.length_diff_fine", "misc.same_cons_end",
     "unsymmetrical.optimal_length", "unsymmetrical.less_w", "unsymmetrical.less_pow",
     "unsymmetrical.more_w", "unsymmetrical.more_pow",
     "same_speech_part.verb", "same_speech_part.adj", "same_speech_part.noun",
     "same_speech_part.adv"}

SliderFields == SettingFields \ {"stresses.indexation"}

\* the values a slider is dragged to (sliders do not clamp: any value is accepted)
SliderValues == {0, 1}

\* GeneralSettings::default(): the fixed baseline of the library
GeneralSettingsDefault == [f \in SettingFields |-> 1]

(***************************************************************************)
(* Theme and the collaborators of theme resolution                         *)
(***************************************************************************)
ThemeNo == <<"No">>
ThemePreset(s) == <<"Preset", s>>
ThemeCustom == <<"Custom">>

\* MEAN_STR_THEMES.str_themes: preset name -> word list
str_themes ==
    [k \in {"p1", "p2"} |->
        IF k = "p1" THEN << <<"a">>, <<"a", "b">> >> ELSE << <<"a">>, <<"b">> >>]

\* the words WORD_COLLECTOR knows a meaning for
Lexicon == { <<"a">>, <<"a", "b">>, <<"a", "a">> }

IsUnknownWord(w) == w \notin Lexicon

\* MeanTheme::from_str: a handle, or the input words it could not resolve
\* (an empty input is rejected with an empty list)
MeanTheme_from_str(words) ==
    LET unknown == SelectSeq(words, IsUnknownWord)
    IN  IF unknown # <<>> \/ words = <<>>
        THEN Err(unknown)
        ELSE Ok([mean_of |-> words])

\* str::split_whitespace().map(ToString::to_string).collect():
\* cur is the token being read, out the tokens already closed
RECURSIVE split_ws_from(_, _, _, _)
split_ws_from(s, i, cur, out) ==
    IF i > Len(s)
    THEN IF cur = <<>> THEN out ELSE Append(out, cur)
    ELSE IF s[i] \in Whitespace
         THEN split_ws_from(s, i + 1, <<>>, IF cur = <<>> THEN out ELSE Append(out, cur))
         ELSE split_ws_from(s, i + 1, Append(cur, s[i]), out)

\* a split on the single space character, keeping empty tokens
RECURSIVE split_space_from(_, _, _, _)
split_space_from(s, i, cur, out) ==
    IF i > Len(s)
    THEN Append(out, cur)
    ELSE IF s[i] = " "
         THEN split_space_from(s, i + 1, <<>>, Append(out, cur))
         ELSE split_space_from(s, i + 1, Append(cur, s[i]), out)

split_on_space(s) == split_space_from(s, 1, <<>>, <<>>)

split_whitespace(s) == split_ws_from(s, 1, <<>>, <<>>)

Event(op, arg, res) == [op |-> op, arg |-> arg, res |-> res]

\* a resolver that has no early return for Theme::No and sends it down the
\* custom branch
mean_theme_no_return(self, text) ==
    IF self[1] = "Preset" /\ self[2] \notin DOMAIN str_themes
    THEN [panic |-> TRUE, res |-> Err(<<>>),
          calls |-> <<Event("str_themes", self[2], None)>>]
    ELSE LET words == IF self[1] = "Preset"
                      THEN str_themes[self[2]]
                      ELSE split_whitespace(text)
             lookup == IF self[1] = "Preset"
                       THEN <<Event("str_themes", self[2], Some(words))>>
                       ELSE <<>>
             made == MeanTheme_from_str(words)
         IN  [panic |-> FALSE,
              res |-> IF made.ok THEN Ok(Some(made.val)) ELSE Err(made.val),
              calls |-> lookup \o <<Event("from_str", words, made)>>]

\* Theme::mean_theme. panic: the index into str_themes found no such key.
\* calls: the collaborator calls it made, in order.
mean_theme(self, text) ==
    IF self[1] = "No"
    THEN [panic |-> FALSE, res |-> Ok(None), calls |-> <<>>]
    ELSE IF self[1] = "Preset" /\ self[2] \notin DOMAIN str_themes
    THEN [panic |-> TRUE, res |-> Err(<<>>),
          calls |-> <<Event("str_themes", self[2], None)>>]
    ELSE LET words == IF self[1] = "Preset"
                      THEN str_themes[self[2]]
                      ELSE split_whitespace(text)
             lookup == IF self[1] = "Preset"
                       THEN <<Event("str_themes", self[2], Some(words))>>
                       ELSE <<>>
             made == MeanTheme_from_str(words)
         IN  [panic |-> FALSE,
              res |-> IF made.ok THEN Ok(Some(made.val)) ELSE Err(made.val),
              calls |-> lookup \o <<Event("from_str", words, made)>>]

(***************************************************************************)
(* Highlighter (src/app/highlighter.rs).  The source declares the two      *)
(* caches and the mode; the operations on them follow section 4.4 of the   *)
(* specification and the clru crate's CLruCache.                           *)
(* A cache is the sequence of its entries [key, value], most recently used *)
(* first.                                                                  *)
(***************************************************************************)
\* enum HighlightMode
HighlightModes == {"Rythm", "No"}

\* the substrings of the editor's text that are rendered
Texts == {<<"a">>, <<"b">>, <<"a", "b">>, <<"b", "a">>}

\* the styles the external renderer gives a text: they depend on state outside
\* the cache, so two renderings of one text may differ
Styles == {"stressed", "unstressed"}

\* RichText::new(text) with no style applied
unstyled(text) == [text |-> text, style |-> "plain"]

\* what the external renderer may return for `text`
renderer_results(text) == {[text |-> text, style |-> st] : st \in Styles}

Keys(cache) == {cache[i].key : i \in 1..Len(cache)}

IndexOf(cache, key) == CHOOSE i \in 1..Len(cache) : cache[i].key = key

\* CLruCache::get: the value under `key`, the entry moved to the front
clru_get(cache, key) ==
    LET i == IndexOf(cache, key)
    IN  [value |-> cache[i].value,
         cache |-> <<cache[i]>> \o SubSeq(cache, 1, i - 1) \o SubSeq(cache, i + 1, Len(cache))]

\* CLruCache::put of a key the cache does not hold: the entry goes to the front,
\* the entry at the back leaves when the cache is full
clru_put(cache, key, value) ==
    <<[key |-> key, value |-> value]>>
    \o (IF Len(cache) >= Capacity THEN SubSeq(cache, 1, Capacity - 1) ELSE cache)

\* a Highlighter right after construction: both caches empty
HighlighterNew ==
    /\ cache_highlight = <<>>
    /\ cache_words = <<>>
    /\ mode = "Rythm"
    /\ calls = <<>>

\* the process starts again: the Highlighter is a new one
HighlighterRestarted ==
    /\ cache_highlight' = <<>>
    /\ cache_words' = <<>>
    /\ mode' = "Rythm"
    /\ calls' = <<>>

\* a get_or_render that keeps the plain renderings of the disabled mode in the
\* plain-word cache
get_or_render_caching_plain(highlight, words, text, m, fresh) ==
    IF m = "No"
    THEN IF text \in Keys(words)
         THEN [cache_highlight |-> highlight, cache_words |-> clru_get(words, text).cache,
               out |-> clru_get(words, text).value, rendered |-> <<>>]
         ELSE [cache_highlight |-> highlight,
               cache_words |-> clru_put(words, text, unstyled(text)),
               out |-> unstyled(text), rendered |-> <<>>]
    ELSE IF text \in Keys(highlight)
    THEN [cache_highlight |-> clru_get(highlight, text).cache, cache_words |-> words,
          out |-> clru_get(highlight, text).value, rendered |-> <<>>]
    ELSE [cache_highlight |-> clru_put(highlight, text, fresh), cache_words |-> words,
          out |-> fresh, rendered |-> <<text>>]

\* a get_or_render whose hit reads the entry without moving it to the front
get_or_render_peek(highlight, words, text, m, fresh) ==
    IF m = "No"
    THEN [cache_highlight |-> highlight, cache_words |-> words,
          out |-> unstyled(text), rendered |-> <<>>]
    ELSE IF text \in Keys(highlight)
    THEN [cache_highlight |-> highlight, cache_words |-> words,
          out |-> clru_get(highlight, text).value, rendered |-> <<>>]
    ELSE [cache_highlight |-> clru_put(highlight, text, fresh), cache_words |-> words,
          out |-> fresh, rendered |-> <<text>>]

\* get_or_render(text, mode) on the caches `highlight` and `words`; `fresh` is
\* what the external renderer returns if it is invoked.  The result gives the
\* two caches afterwards, the value returned and the texts sent to the renderer.
\* The disabled mode bypasses both caches; the rhythm mode is bound to the
\* rhyme-highlight cache.
get_or_render(highlight, words, text, m, fresh) ==
    IF m = "No"
    THEN [cache_highlight |-> highlight, cache_words |-> words,
          out |-> unstyled(text), rendered |-> <<>>]
    ELSE IF text \in Keys(highlight)
    THEN [cache_highlight |-> clru_get(highlight, text).cache, cache_words |-> words,
          out |-> clru_get(highlight, text).value, rendered |-> <<>>]
    ELSE [cache_highlight |-> clru_put(highlight, text, fresh), cache_words |-> words,
          out |-> fresh, rendered |-> <<text>>]

\* one render pass of a word of the editor in the current mode
GetOrRender ==
    /\ Len(calls) < MaxCalls
    /\ \E text \in Texts : \E fresh \in renderer_results(text) :
         LET done == get_or_render(cache_highlight, cache_words, text, mode, fresh)
         IN  /\ cache_highlight' = done.cache_highlight
             /\ cache_words' = done.cache_words
             /\ calls' = Append(calls, [text |-> text, mode |-> mode,
                                        out |-> done.out, rendered |-> done.rendered])
    /\ UNCHANGED mode
    /\ UNCHANGED app_vars

\* set_mode(mode): neither cache is cleared
SetMode ==
    /\ \E m \in HighlightModes \ {mode} : mode' = m
    /\ UNCHANGED <<cache_highlight, cache_words, calls>>
    /\ UNCHANGED app_vars

(***************************************************************************)
(* The collaborators of a query                                            *)
(***************************************************************************)
\* the rhyme words the user types into the word field
RhymeWords == { <<>>, <<"a">> }

\* the positions the result-count slider (1..=500) is dragged to
RhymeCounts == {1, 2, 50, 500}

Min(a, b) == IF a < b THEN a ELSE b

\* api::string2word: the parsed word, or the parser's error string.
\* Which words the corpus parses is not fixed here: either outcome may occur.
string2word_results(s) ==
    { Ok([src |-> s]), Err(<<"string2word: cannot parse the word">>) }

\* the ranked candidates of the corpus, as WordDistanceResults
Corpus == << [word |-> [src |-> <<"b">>], dist |-> 1],
             [word |-> [src |-> <<"b", "a">>], dist |-> 2] >>

\* api::find: at most top_n ranked candidates, or the engine's error string
find_results(args) ==
    { Err(<<"find: ranking failed">>) }
    \cup { Ok(SubSeq(Corpus, 1, n)) : n \in 0..Min(args.top_n, Len(Corpus)) }

(***************************************************************************)
(* QuickpoeterApp::update, lines 229-248: the submission                   *)
(***************************************************************************)
\* format!("{err:?}") of a Vec<String>: ["w1", "w2"]
RECURSIVE debug_items(_, _)
debug_items(v, i) ==
    IF i > Len(v) THEN <<>>
    ELSE (IF i > 1 THEN <<",", " ">> ELSE <<>>)
         \o <<"\"">> \o v[i] \o <<"\"">> \o debug_items(v, i + 1)

debug_vec(v) == <<"[">> \o debug_items(v, 1) \o <<"]">>

EmptyThemeText == <<"Pustaya tema">>
UnknownWordsPrefix == <<"Neizvestnye slova: ">>

\* a closure that formats every failure as unknown words
theme_error_text_one_kind(err) == UnknownWordsPrefix \o debug_vec(err)

\* the closure given to map_err at lines 238-241
theme_error_text(err) ==
    IF Len(err) = 0
    THEN EmptyThemeText
    ELSE UnknownWordsPrefix \o debug_vec(err)

\* the call with no theme, no exclusion codes and a fixed limit
find_args_fixed(word, handle) ==
    [settings |-> general_settings,
     word     |-> word,
     theme    |-> None,
     rps      |-> <<>>,
     top_n    |-> 10]

\* the arguments of find at lines 232-245, for a parsed word and a resolved theme
find_args(word, handle) ==
    [settings |-> general_settings,
     word     |-> word,
     theme    |-> handle,
     rps      |-> get_list(rps),
     top_n    |-> show_rhymes]

\* .map(|r| r.into_iter().map(|r| r.word.src.clone()).collect())
collect_src(found) ==
    IF found.ok
    THEN Ok([i \in 1..Len(found.val) |-> found.val[i].word.src])
    ELSE found

\* an assignment that keeps the displayed result when the query fails
assign_output_if_ok(previous, result) == IF result.ok THEN result ELSE previous

\* the assignment `self.rhyme_output = ...` at line 230
assign_output(previous, result) == result

\* the call of Theme::mean_theme as an entry of the log
resolve_call(resolved) ==
    <<Event("mean_theme", <<theme, custom_theme_text>>, resolved.res)>> \o resolved.calls

\* a handler that resolves the theme before it parses the word
Submit_theme_first ==
    /\ alive
    /\ last' = "submit"
    /\ UNCHANGED highlighter_vars
    /\ UNCHANGED <<rhyme_word, show_settings, show_theme, general_settings,
                   custom_theme_text, theme, rps, show_rhymes, main_text,
                   storage>>
    /\ \E parsed \in string2word_results(rhyme_word) :
         LET call1 == <<Event("string2word", rhyme_word, parsed)>>
             resolved == mean_theme(theme, custom_theme_text)
         IN  IF resolved.panic
             THEN /\ rhyme_output' = rhyme_output
                  /\ log' = resolve_call(resolved)
                  /\ alive' = FALSE
             ELSE IF ~resolved.res.ok
             THEN /\ rhyme_output' =
                        assign_output(rhyme_output, Err(theme_error_text(resolved.res.val)))
                  /\ log' = resolve_call(resolved)
                  /\ alive' = TRUE
             ELSE IF ~parsed.ok
             THEN /\ rhyme_output' = assign_output(rhyme_output, Err(parsed.val))
                  /\ log' = resolve_call(resolved) \o call1
                  /\ alive' = TRUE
             ELSE LET args == find_args(parsed.val, resolved.res.val)
                  IN  \E found \in find_results(args) :
                        /\ rhyme_output' = assign_output(rhyme_output, collect_src(found))
                        /\ log' = resolve_call(resolved) \o call1
                                     \o <<Event("get_list", rps, args.rps),
                                          Event("find", args, found)>>
                        /\ alive' = TRUE

\* one submission: lost_focus() with Enter pressed.  string2word runs first and
\* and_then runs the closure only on Ok; inside it the arguments of find are
\* evaluated left to right, `?` leaving the closure on a theme error
Submit ==
    /\ alive
    /\ last' = "submit"
    /\ UNCHANGED highlighter_vars
    /\ UNCHANGED <<rhyme_word, show_settings, show_theme, general_settings,
                   custom_theme_text, theme, rps, show_rhymes, main_text,
                   storage>>
    /\ \E parsed \in string2word_results(rhyme_word) :
         LET call1 == <<Event("string2word", rhyme_word, parsed)>>
             resolved == mean_theme(theme, custom_theme_text)
         IN  IF ~parsed.ok
             THEN /\ rhyme_output' = assign_output(rhyme_output, Err(parsed.val))
                  /\ log' = call1
                  /\ alive' = TRUE
             ELSE IF resolved.panic
             THEN /\ rhyme_output' = rhyme_output
                  /\ log' = call1 \o resolve_call(resolved)
                  /\ alive' = FALSE
             ELSE IF ~resolved.res.ok
             THEN /\ rhyme_output' =
                        assign_output(rhyme_output, Err(theme_error_text(resolved.res.val)))
                  /\ log' = call1 \o resolve_call(resolved)
                  /\ alive' = TRUE
             ELSE LET args == find_args(parsed.val, resolved.res.val)
                  IN  \E found \in find_results(args) :
                        /\ rhyme_output' = assign_output(rhyme_output, collect_src(found))
                        /\ log' = call1 \o resolve_call(resolved)
                                     \o <<Event("get_list", rps, args.rps),
                                          Event("find", args, found)>>
                        /\ alive' = TRUE

(***************************************************************************)
(* The other frames of update: one user interaction per frame.  None of    *)
(* them calls a collaborator.                                              *)
(***************************************************************************)
Frame(name) ==
    /\ alive
    /\ alive' = TRUE
    /\ log' = <<>>
    /\ last' = name
    /\ UNCHANGED highlighter_vars

\* a frame with no input
Repaint ==
    /\ Frame("frame")
    /\ UNCHANGED <<rhyme_word, rhyme_output, show_settings, show_theme, general_settings,
                   custom_theme_text, theme, rps, show_rhymes, main_text, storage>>

\* ui.toggle_value(&mut self.show_theme, ...), line 211
ToggleShowTheme ==
    /\ Frame("frame")
    /\ show_theme' = ~show_theme
    /\ UNCHANGED <<rhyme_word, rhyme_output, show_settings, general_settings,
                   custom_theme_text, theme, rps, show_rhymes, main_text, storage>>

\* ui.toggle_value(&mut self.show_settings, ...), line 212, and the window's close box
ToggleShowSettings ==
    /\ Frame("frame")
    /\ show_settings' = ~show_settings
    /\ UNCHANGED <<rhyme_word, rhyme_output, show_theme, general_settings,
                   custom_theme_text, theme, rps, show_rhymes, main_text, storage>>

\* a word field that queries the engine on every change of its text
EditWordSearching ==
    /\ Frame("frame")
    /\ \E w \in RhymeWords :
         /\ w # rhyme_word
         /\ rhyme_word' = w
         /\ rhyme_output' = Ok(<<w>>)
    /\ UNCHANGED <<show_settings, show_theme, general_settings,
                   custom_theme_text, theme, rps, show_rhymes, main_text, storage>>

\* keystrokes in the word field (TextEdit::singleline), no Enter
EditWord ==
    /\ Frame("frame")
    /\ \E w \in RhymeWords : w # rhyme_word /\ rhyme_word' = w
    /\ UNCHANGED <<rhyme_output, show_settings, show_theme, general_settings,
                   custom_theme_text, theme, rps, show_rhymes, main_text, storage>>

\* show_theme_select: the combo box of presets and the "custom" entry
SelectTheme ==
    /\ Frame("frame")
    /\ show_theme
    /\ \E t \in {ThemeNo, ThemeCustom} \cup {ThemePreset(s) : s \in DOMAIN str_themes} :
         t # theme /\ theme' = t
    /\ UNCHANGED <<rhyme_word, rhyme_output, show_settings, show_theme, general_settings,
                   custom_theme_text, rps, show_rhymes, main_text, storage>>

\* show_theme_select: the custom theme text box, shown when theme == Custom;
\* one keystroke (a character typed at the end, or a backspace) per frame
EditCustomText ==
    /\ Frame("frame")
    /\ show_theme
    /\ theme = ThemeCustom
    /\ \/ \E c \in Chars :
              /\ Len(custom_theme_text) < MaxLen
              /\ custom_theme_text' = Append(custom_theme_text, c)
       \/ /\ custom_theme_text # <<>>
          /\ custom_theme_text' = SubSeq(custom_theme_text, 1, Len(custom_theme_text) - 1)
    /\ UNCHANGED <<rhyme_word, rhyme_output, show_settings, show_theme, general_settings,
                   theme, rps, show_rhymes, main_text, storage>>

(***************************************************************************)
(* show_settings_window: the widgets of the settings window                *)
(***************************************************************************)
\* Slider::new(&mut self.show_rhymes, 1..=500), lines 299-302
SetShowRhymes ==
    /\ Frame("frame")
    /\ show_settings
    /\ \E n \in RhymeCounts : n # show_rhymes /\ show_rhymes' = n
    /\ UNCHANGED <<rhyme_word, rhyme_output, show_settings, show_theme, general_settings,
                   custom_theme_text, theme, rps, main_text, storage>>

\* a reset that restores the weights only
reset_weights_only(settings) ==
    [f \in SettingFields |->
        IF f \in {"meaning.weight", "popularity.weight", "stresses.weight",
                  "consonant_structure.weight", "alliteration.weight"}
        THEN GeneralSettingsDefault[f]
        ELSE settings[f]]

\* self.general_settings = GeneralSettings::default(), line 305
reset_settings(settings) == GeneralSettingsDefault

\* the "Sbrosit'" (reset) button, lines 304-306
Reset ==
    /\ Frame("reset")
    /\ show_settings
    /\ general_settings' = reset_settings(general_settings)
    /\ UNCHANGED <<rhyme_word, rhyme_output, show_settings, show_theme,
                   custom_theme_text, theme, rps, show_rhymes, main_text, storage>>

\* ui.checkbox(&mut self.general_settings.stresses.indexation, ...), line 308
ToggleIndexation ==
    /\ Frame("frame")
    /\ show_settings
    /\ general_settings' =
         [general_settings EXCEPT !["stresses.indexation"] = 1 - @]
    /\ UNCHANGED <<rhyme_word, rhyme_output, show_settings, show_theme,
                   custom_theme_text, theme, rps, show_rhymes, main_text, storage>>

\* one slider of the setting! blocks, lines 327-396 (clamp_to_range(false))
EditSetting ==
    /\ Frame("frame")
    /\ show_settings
    /\ \E f \in SliderFields, v \in SliderValues :
         /\ v # general_settings[f]
         /\ general_settings' = [general_settings EXCEPT ![f] = v]
    /\ UNCHANGED <<rhyme_word, rhyme_output, show_settings, show_theme,
                   custom_theme_text, theme, rps, show_rhymes, main_text, storage>>

\* one checkbox of the part-of-speech block, lines 398-415
ToggleFlag ==
    /\ Frame("frame")
    /\ show_settings
    /\ \E f \in Flags : rps' = [rps EXCEPT ![f] = ~@]
    /\ UNCHANGED <<rhyme_word, rhyme_output, show_settings, show_theme, general_settings,
                   custom_theme_text, theme, show_rhymes, main_text, storage>>

\* the editor of the central panel, lines 270-280
EditMainText ==
    /\ Frame("frame")
    /\ \/ \E c \in Chars :
              /\ Len(main_text) < MaxLen
              /\ main_text' = Append(main_text, c)
       \/ /\ main_text # <<>>
          /\ main_text' = SubSeq(main_text, 1, Len(main_text) - 1)
    /\ UNCHANGED <<rhyme_word, rhyme_output, show_settings, show_theme, general_settings,
                   custom_theme_text, theme, rps, show_rhymes, storage>>

(***************************************************************************)
(* Persistence: the serde derive of QuickpoeterApp, eframe::set_value /     *)
(* get_value (RON text under APP_KEY), QuickpoeterApp::new and save.       *)
(* A payload is the map of the struct's written fields to their RON text.  *)
(***************************************************************************)
\* impl Default for QuickpoeterApp
QuickpoeterAppDefault ==
    [main_text         |-> <<>>,
     rhyme_word        |-> <<>>,
     general_settings  |-> GeneralSettingsDefault,
     show_theme        |-> FALSE,
     show_settings     |-> FALSE,
     rhyme_output      |-> Ok(<<>>),
     rps               |-> RemovePartsOfSpeechDefault,
     custom_theme_text |-> <<>>,
     show_rhymes       |-> 50,
     theme             |-> ThemeNo]

\* the session as a value of the struct
Self ==
    [main_text         |-> main_text,
     rhyme_word        |-> rhyme_word,
     general_settings  |-> general_settings,
     show_theme        |-> show_theme,
     show_settings     |-> show_settings,
     rhyme_output      |-> rhyme_output,
     rps               |-> rps,
     custom_theme_text |-> custom_theme_text,
     show_rhymes       |-> show_rhymes,
     theme             |-> theme]

\* the fields without #[serde(skip)]
PersistedFields == {"custom_theme_text", "theme", "rps", "show_rhymes", "main_text"}

\* RON string literal: quoted, a newline written as the escape \n
RECURSIVE ron_escape(_, _)
ron_escape(str, i) ==
    IF i > Len(str) THEN <<>>
    ELSE (IF str[i] = "\n" THEN <<"\\", "n">> ELSE <<str[i]>>) \o ron_escape(str, i + 1)

ron_string(str) == <<"\"">> \o ron_escape(str, 1) \o <<"\"">>

RECURSIVE ron_unescape(_, _)
ron_unescape(txt, i) ==
    IF i > Len(txt) THEN <<>>
    ELSE IF txt[i] = "\\" /\ i < Len(txt) /\ txt[i + 1] = "n"
         THEN <<"\n">> \o ron_unescape(txt, i + 2)
         ELSE <<txt[i]>> \o ron_unescape(txt, i + 1)

\* None when the text is no string literal
ron_parse_string(txt) ==
    IF Len(txt) >= 2 /\ txt[1] = "\"" /\ txt[Len(txt)] = "\""
    THEN Some(ron_unescape(SubSeq(txt, 2, Len(txt) - 1), 1))
    ELSE None

\* RON of the enum Theme: No, Preset("name"), Custom
ron_theme(t) ==
    IF t[1] = "Preset" THEN <<"Preset", "(", t[2], ")">> ELSE <<t[1]>>

ron_parse_theme(txt) ==
    IF txt = <<"No">> THEN Some(ThemeNo)
    ELSE IF txt = <<"Custom">> THEN Some(ThemeCustom)
    ELSE IF Len(txt) = 4 /\ txt[1] = "Preset" /\ txt[2] = "(" /\ txt[4] = ")"
         THEN Some(ThemePreset(txt[3]))
         ELSE None

ron_bool(b) == IF b THEN "true" ELSE "false"

\* RON of RemovePartsOfSpeech: every field written
ron_rps(r) == [f \in Flags |-> ron_bool(r[f])]

\* RemovePartsOfSpeech derives Deserialize without #[serde(default)]:
\* every field must be present
ron_parse_rps(m) ==
    IF Flags \subseteq DOMAIN m /\ \A f \in Flags : m[f] \in {"true", "false"}
    THEN Some([f \in Flags |-> m[f] = "true"])
    ELSE None

\* a serializer that skips the result-count limit
serialize_no_limit(app) ==
    [custom_theme_text |-> ron_string(app.custom_theme_text),
     theme             |-> ron_theme(app.theme),
     rps               |-> ron_rps(app.rps),
     main_text         |-> ron_string(app.main_text)]

\* eframe::set_value: ron::ser::to_string(self)
serialize(app) ==
    [custom_theme_text |-> ron_string(app.custom_theme_text),
     theme             |-> ron_theme(app.theme),
     rps               |-> ron_rps(app.rps),
     show_rhymes       |-> app.show_rhymes,
     main_text         |-> ron_string(app.main_text)]

\* one field of the payload, parsed: None when it does not parse
parse_field(payload, name) ==
    IF name = "custom_theme_text" \/ name = "main_text"
    THEN ron_parse_string(payload[name])
    ELSE IF name = "theme" THEN ron_parse_theme(payload[name])
    ELSE IF name = "rps" THEN ron_parse_rps(payload[name])
    ELSE Some(payload[name])

\* #[serde(default)] on the struct: a field the payload lacks, and every skipped
\* field, is taken from QuickpoeterApp::default(); a field that does not parse
\* fails the whole value
deserialize(payload) ==
    LET present == PersistedFields \cap DOMAIN payload
    IN  IF \E name \in present : parse_field(payload, name) = None
        THEN None
        ELSE Some([name \in DOMAIN QuickpoeterAppDefault |->
                     IF name \in present
                     THEN parse_field(payload, name)[1]
                     ELSE QuickpoeterAppDefault[name]])

\* eframe::get_value(storage, APP_KEY)
get_value(slot) == IF slot = None THEN None ELSE deserialize(slot[1])

\* QuickpoeterApp::new, lines 169-180
new(store) ==
    IF store.available
    THEN LET got == get_value(store.value)
         IN  IF got = None THEN QuickpoeterAppDefault ELSE got[1]
    ELSE QuickpoeterAppDefault

\* the session becomes the value `app`
Becomes(app) ==
    /\ main_text' = app.main_text
    /\ rhyme_word' = app.rhyme_word
    /\ general_settings' = app.general_settings
    /\ show_theme' = app.show_theme
    /\ show_settings' = app.show_settings
    /\ rhyme_output' = app.rhyme_output
    /\ rps' = app.rps
    /\ custom_theme_text' = app.custom_theme_text
    /\ show_rhymes' = app.show_rhymes
    /\ theme' = app.theme

\* QuickpoeterApp::save, lines 185-187: the periodic auto-save
Save ==
    /\ Frame("frame")
    /\ storage.available
    /\ storage' = [storage EXCEPT !.value = Some(serialize(Self))]
    /\ UNCHANGED <<rhyme_word, rhyme_output, show_settings, show_theme, general_settings,
                   custom_theme_text, theme, rps, show_rhymes, main_text>>

\* the process is closed and started again: eframe calls save before shutdown,
\* then new on the next start
Relaunch ==
    /\ alive
    /\ alive' = TRUE
    /\ log' = <<>>
    /\ last' = "relaunch"
    /\ HighlighterRestarted
    /\ storage' = IF storage.available
                  THEN [storage EXCEPT !.value = Some(serialize(Self))]
                  ELSE storage
    /\ Becomes(new(storage'))

\* the process is killed (or has panicked) and started again: new reads what the
\* storage holds
Restart ==
    /\ alive' = TRUE
    /\ log' = <<>>
    /\ last' = "new"
    /\ HighlighterRestarted
    /\ Becomes(new(storage))
    /\ UNCHANGED storage

(***************************************************************************)
(* Start of the process                                                    *)
(***************************************************************************)
NoStore == [available |-> FALSE, value |-> None]
EmptyStore == [available |-> TRUE, value |-> None]

\* what an earlier run, built with a theme table that still had the preset "p0",
\* left in the storage
StaleStore ==
    [available |-> TRUE,
     value |-> Some(serialize([QuickpoeterAppDefault EXCEPT !.theme = ThemePreset("p0")]))]

\* what a run left in the storage: every persisted field off its default
Written ==
    [QuickpoeterAppDefault EXCEPT
        !.main_text = <<"a", "\n">>,
        !.custom_theme_text = <<"a", " ", "b">>,
        !.theme = ThemeCustom,
        !.show_rhymes = 2,
        !.rps = [RemovePartsOfSpeechDefault EXCEPT !.noun = TRUE, !.verb = TRUE]]

\* a payload of a build whose struct did not have the fields `dropped` yet
without_fields(payload, dropped) ==
    [name \in DOMAIN payload \ dropped |-> payload[name]]

\* a payload of a build whose RemovePartsOfSpeech did not have the flags `dropped`
without_flags(payload, dropped) ==
    IF "rps" \in DOMAIN payload
    THEN [payload EXCEPT !.rps = [f \in DOMAIN payload.rps \ dropped |-> payload.rps[f]]]
    ELSE payload

\* the storages older builds leave behind: any set of top-level fields missing,
\* and at most one flag missing inside rps
OldStores ==
    { [available |-> TRUE,
       value |-> Some(without_flags(without_fields(serialize(Written), D), F))] :
        D \in SUBSET PersistedFields, F \in {{}} \cup {{f} : f \in Flags} }

\* what the storage may hold when the process starts
BootStores == {NoStore, EmptyStore, StaleStore}

\* the state after QuickpoeterApp::new(cc), cc.storage being `store`
Started(store) ==
    /\ storage = store
    /\ main_text = new(store).main_text
    /\ rhyme_word = new(store).rhyme_word
    /\ general_settings = new(store).general_settings
    /\ show_theme = new(store).show_theme
    /\ show_settings = new(store).show_settings
    /\ rhyme_output = new(store).rhyme_output
    /\ rps = new(store).rps
    /\ custom_theme_text = new(store).custom_theme_text
    /\ show_rhymes = new(store).show_rhymes
    /\ theme = new(store).theme
    /\ alive = TRUE
    /\ log = <<>>
    /\ last = "new"
    /\ HighlighterNew

Init == \E store \in BootStores : Started(store)

\* a first start: the storage holds nothing yet
InitFresh == Started(EmptyStore)

\* how far the session is from its defaults, in single edits
Edits ==
    Cardinality({f \in SettingFields : general_settings[f] # GeneralSettingsDefault[f]})
    + Cardinality({f \in Flags : rps[f]})
    + (IF show_rhymes # QuickpoeterAppDefault.show_rhymes THEN 1 ELSE 0)
    + Len(custom_theme_text)
    + Len(main_text)

\* an edit is made only while fewer than MaxEdits are in place
BelowEdits == Edits < MaxEdits

(***************************************************************************)
(* Specifications                                                          *)
(***************************************************************************)
\* the frames that edit a value the budget MaxEdits counts
Edit ==
    \/ EditCustomText
    \/ SetShowRhymes
    \/ ToggleIndexation
    \/ EditSetting
    \/ ToggleFlag

\* one session from a first start: every frame of update; the user keeps at most
\* MaxEdits values off their defaults
NextSession ==
    \/ Submit
    \/ Repaint
    \/ ToggleShowTheme
    \/ ToggleShowSettings
    \/ EditWord
    \/ SelectTheme
    \/ Reset
    \/ BelowEdits /\ Edit

SpecSession == InitFresh /\ [][NextSession]_vars

\* the program over its runs: any storage at the start, the frames of update,
\* and the process killed (or panicked) and started again
Next ==
    \/ NextSession
    \/ Restart

Spec == Init /\ [][Next]_vars

\* the part-of-speech checkboxes alone, every combination of them
NextRps == ToggleShowSettings \/ ToggleFlag

SpecRps == InitFresh /\ [][NextRps]_vars

\* the theme panel and the word field alone, every custom text up to MaxLen
NextTheme == ToggleShowTheme \/ SelectTheme \/ EditCustomText \/ EditWord \/ Submit

SpecTheme == InitFresh /\ [][NextTheme]_vars

\* the sliders and the reset button alone; up to MaxEdits + 1 sliders off default
BelowDirty == Edits < MaxEdits + 1

NextReset ==
    \/ ToggleShowSettings
    \/ BelowDirty /\ EditSetting
    \/ BelowDirty /\ ToggleIndexation
    \/ Reset

SpecReset == InitFresh /\ [][NextReset]_vars

\* nothing has been saved yet
FirstRun == storage.value = None

\* the persisted fields, save and the starts of the process; the values the
\* budget counts are edited in the run that first saves them
NextPersist ==
    \/ ToggleShowTheme
    \/ ToggleShowSettings
    \/ SelectTheme
    \/ FirstRun /\ BelowEdits /\ (Edit \/ EditMainText)
    \/ Save
    \/ Relaunch
    \/ Restart

SpecPersist == Init /\ [][NextPersist]_vars

\* a build started on the storage of an older build: the panels are opened and
\* closed, the process is started again
InitUpgrade == \E store \in OldStores : Started(store)

NextUpgrade ==
    \/ ToggleShowTheme
    \/ ToggleShowSettings
    \/ Restart

SpecUpgrade == InitUpgrade /\ [][NextUpgrade]_vars

\* the Highlighter alone: render passes of the words of the text, the mode switched
NextHighlight == GetOrRender \/ SetMode

SpecHighlight == InitFresh /\ [][NextHighlight]_vars

(***************************************************************************)
(* Vocabulary of the properties                                            *)
(***************************************************************************)
\* the canonical order of the exclusion flags and the code of each
FlagOrder == <<"noun", "adj", "pronoun", "pronoun_adj", "verb", "adv", "num", "num_adj",
               "linking", "citoslovce", "pred", "prep", "conj", "compare", "part", "misc">>

CodeOrder == <<"s", "p", "ms", "ms-p", "g", "n", "chisl", "chisl-p",
               "vvodn", "mezhd", "predik", "predl", "soyuz", "sravn", "chast", "?">>

PosOfFlag(f) == CHOOSE i \in 1..Len(FlagOrder) : FlagOrder[i] = f
PosOfCode(c) == CHOOSE i \in 1..Len(CodeOrder) : CodeOrder[i] = c

Without(seq, x) == LET Keep(y) == y # x IN SelectSeq(seq, Keep)
Range(seq) == {seq[i] : i \in 1..Len(seq)}

\* the calls of the last frame to the collaborator `op`
Calls(op) == LET Is(e) == e.op = op IN SelectSeq(log, Is)

Submitted == last = "submit"

\* the text with its whitespace removed
RECURSIVE Squeeze(_)
Squeeze(str) ==
    IF str = <<>> THEN <<>>
    ELSE (IF Head(str) \in Whitespace THEN <<>> ELSE <<Head(str)>>) \o Squeeze(Tail(str))

RECURSIVE Flatten(_)
Flatten(tokens) == IF tokens = <<>> THEN <<>> ELSE Head(tokens) \o Flatten(Tail(tokens))

\* the positions at which a run of non-whitespace characters starts
TokenStarts(str) ==
    {i \in 1..Len(str) :
        str[i] \notin Whitespace /\ (i = 1 \/ str[i - 1] \in Whitespace)}

\* the words between double quotes in a text
RECURSIVE quoted_from(_, _, _, _, _)
quoted_from(txt, i, inside, cur, out) ==
    IF i > Len(txt) THEN out
    ELSE IF txt[i] = "\""
         THEN IF inside
              THEN quoted_from(txt, i + 1, FALSE, <<>>, Append(out, cur))
              ELSE quoted_from(txt, i + 1, TRUE, <<>>, out)
         ELSE quoted_from(txt, i + 1, inside, IF inside THEN Append(cur, txt[i]) ELSE cur, out)

QuotedWords(txt) == quoted_from(txt, 1, FALSE, <<>>, <<>>)

(***************************************************************************)
(* C1                                                                      *)
(***************************************************************************)
\* C1: for every assignment of the sixteen flags, get_list returns exactly the
\* codes of the true flags, each once, in the canonical order (so its length is
\* the number of true flags); toggling one flag changes the presence of that
\* flag's code alone and keeps the others and their relative order.
C1_GetListCanonical ==
    LET out == get_list(rps)
    IN  /\ Len(out) = Cardinality({f \in Flags : rps[f]})
        /\ \A i \in 1..Len(FlagOrder) : rps[FlagOrder[i]] <=> CodeOrder[i] \in Range(out)
        /\ \A j, k \in 1..Len(out) : j < k => PosOfCode(out[j]) < PosOfCode(out[k])
        /\ \A f \in Flags :
             LET code == CodeOrder[PosOfFlag(f)]
                 toggled == get_list([rps EXCEPT ![f] = ~@])
             IN  /\ (code \in Range(toggled)) # (code \in Range(out))
                 /\ Without(toggled, code) = Without(out, code)

\* several flags checked, among them two neighbours of the canonical order
C1_Witness ==
    /\ rps.noun /\ rps.verb /\ rps.adv /\ rps.misc /\ ~rps.adj
    /\ get_list(rps)[1] = "s"

(***************************************************************************)
(* C2                                                                      *)
(***************************************************************************)
\* C2: when the semantic-model constructor fails with an empty list the result of
\* the submission is the empty-theme error and not an unknown-words error; when it
\* fails with a non-empty list the result is the unknown-words error naming exactly
\* the rejected words, in order (custom text "a b", b unknown: exactly ["b"]).
C2_ThemeFailureKinds ==
    Submitted =>
      \A k \in 1..Len(Calls("from_str")) :
        LET made == Calls("from_str")[k].res
        IN  ~made.ok =>
              /\ ~rhyme_output.ok
              /\ IF made.val = <<>>
                 THEN /\ rhyme_output.val = <<"Pustaya tema">>
                      /\ Head(rhyme_output.val) # "Neizvestnye slova: "
                 ELSE /\ Head(rhyme_output.val) = "Neizvestnye slova: "
                      /\ QuotedWords(Tail(rhyme_output.val)) = made.val
              /\ (theme = ThemeCustom /\ custom_theme_text = <<>>)
                    => rhyme_output.val = <<"Pustaya tema">>
              /\ (theme = ThemeCustom /\ custom_theme_text = <<"a", " ", "b">>)
                    => rhyme_output.val
                         = <<"Neizvestnye slova: ", "[", "\"", "b", "\"", "]">>

\* a custom theme of a known and an unknown word was submitted
C2_Witness ==
    /\ Submitted
    /\ theme = ThemeCustom
    /\ custom_theme_text = <<"a", " ", "b">>
    /\ Len(Calls("from_str")) = 1
    /\ ~rhyme_output.ok

(***************************************************************************)
(* C3                                                                      *)
(***************************************************************************)
\* C3: resolving Theme::No gives Ok(None) for every custom text, and neither the
\* theme table nor the semantic-model constructor is called.
C3_NoThemeResolvesToNone ==
    /\ mean_theme(ThemeNo, custom_theme_text).res = Ok(None)
    /\ mean_theme(ThemeNo, custom_theme_text).calls = <<>>
    /\ (Submitted /\ theme = ThemeNo) =>
          /\ Calls("str_themes") = <<>>
          /\ Calls("from_str") = <<>>
          /\ \A k \in 1..Len(Calls("find")) : Calls("find")[k].arg.theme = None

\* a query was ranked with no theme selected while a custom text was present
C3_Witness ==
    /\ Submitted
    /\ theme = ThemeNo
    /\ custom_theme_text = <<"b">>
    /\ Len(Calls("find")) = 1

(***************************************************************************)
(* C4                                                                      *)
(***************************************************************************)
\* C4: resolving Theme::Custom hands the constructor exactly the whitespace-
\* separated tokens of the custom text, in order and none empty (none at all for
\* an empty or all-whitespace text), without a look-up in the theme table; when
\* the constructor succeeds the engine receives Some(handle).
C4_CustomThemeTokens ==
    (Submitted /\ theme = ThemeCustom /\ Len(log) > 1) =>
      /\ Calls("str_themes") = <<>>
      /\ Len(Calls("from_str")) = 1
      /\ LET call == Calls("from_str")[1]
             tokens == call.arg
         IN  /\ \A k \in 1..Len(tokens) :
                   tokens[k] # <<>> /\ Range(tokens[k]) \cap Whitespace = {}
             /\ Flatten(tokens) = Squeeze(custom_theme_text)
             /\ Len(tokens) = Cardinality(TokenStarts(custom_theme_text))
             /\ call.res.ok =>
                   /\ Len(Calls("find")) = 1
                   /\ Calls("find")[1].arg.theme = Some(call.res.val)

\* a custom text of two known words around a newline was resolved and ranked
C4_Witness ==
    /\ Submitted
    /\ theme = ThemeCustom
    /\ custom_theme_text = <<"a", "\n", "a">>
    /\ Len(Calls("find")) = 1
    /\ Calls("from_str")[1].arg = << <<"a">>, <<"a">> >>

(***************************************************************************)
(* C5                                                                      *)
(***************************************************************************)
\* C5: no failure of a query or of theme resolution is fatal: in every state the
\* session can hold, a Theme::Preset(name) restored from the storage included, a
\* submission ends with rhyme_output set and the process still running.
C5_SubmissionNeverFatal ==
    Submitted => alive /\ rhyme_output.ok \in BOOLEAN

(***************************************************************************)
(* C6                                                                      *)
(***************************************************************************)
\* the error value the submission shows for a failed call
ShownFor(call) ==
    IF call.op = "from_str"
    THEN IF call.res.val = <<>>
         THEN <<"Pustaya tema">>
         ELSE <<"Neizvestnye slova: ">> \o debug_vec(call.res.val)
    ELSE call.res.val

\* C6: every failure of a submission (word not parsed, theme not resolved, engine
\* failure) replaces the displayed result wholesale: rhyme_output is Err and is
\* exactly the error value of the failed stage, with nothing of the previous
\* result and no partial result.
C6_FailureReplacesResult ==
    Submitted =>
      \A k \in 1..Len(log) :
        (log[k].op \in {"string2word", "from_str", "find"} /\ ~log[k].res.ok) =>
           /\ ~rhyme_output.ok
           /\ rhyme_output.val = ShownFor(log[k])

\* the engine failed on a query whose word and theme were accepted
C6_Witness ==
    /\ Submitted
    /\ Len(Calls("find")) = 1
    /\ ~Calls("find")[1].res.ok
    /\ theme = ThemePreset("p1")
    /\ ~rhyme_output.ok

(***************************************************************************)
(* C7                                                                      *)
(***************************************************************************)
\* C7: the engine is queried on a submission only: a frame that is no submission
\* calls no collaborator and leaves rhyme_output as it is (only a submission or a
\* start of the process sets it), and a submission calls the engine at most once.
C7_EngineOnlyOnSubmission ==
    [][ /\ rhyme_output' # rhyme_output => last' \in {"submit", "new", "relaunch"}
        /\ last' # "submit" => log' = <<>>
        /\ Len(Calls("find"))' <= 1 ]_vars

\* a submission that reached the engine
C7_Witness ==
    /\ Submitted
    /\ Len(Calls("find")) = 1
    /\ rhyme_output.ok
    /\ rhyme_output.val # <<>>

(***************************************************************************)
(* C8                                                                      *)
(***************************************************************************)
\* the codes of the checked flags, in canonical order
CanonicalCodes(r) ==
    LET Checked(c) == r[FlagOrder[PosOfCode(c)]] IN SelectSeq(CodeOrder, Checked)

\* the handle of the selected theme
ExpectedHandle ==
    IF theme = ThemeNo THEN None
    ELSE IF theme[1] = "Preset"
         THEN Some([mean_of |-> str_themes[theme[2]]])
         ELSE Some([mean_of |-> split_whitespace(custom_theme_text)])

C9_ResetRestoresBaseline ==
    /\ \A f \in SettingFields : reset_settings(general_settings)[f] = GeneralSettingsDefault[f]
    /\ last = "reset" =>
          /\ \A f \in SettingFields : general_settings[f] = GeneralSettingsDefault[f]
          /\ reset_settings(general_settings) = general_settings

\* the reset button was pressed
C9_Witness ==
    /\ last = "reset"
    /\ show_settings
    /\ general_settings = GeneralSettingsDefault

(***************************************************************************)
(* C10                                                                     *)
(***************************************************************************)
\* C10 as claimed: saving and restoring gives back the settings, the theme, the
\* part-of-speech flags and the limit as they were when saved.
C10_RoundTripAll ==
    [][ (last' = "relaunch" /\ storage.available) =>
           /\ general_settings' = general_settings
           /\ theme' = theme
           /\ rps' = rps
           /\ show_rhymes' = show_rhymes ]_vars

\* C10 amended: saving and restoring gives back the theme, the custom theme text,
\* the part-of-speech flags, the limit and the editor text as they were when
\* saved; the settings are not saved and are the baseline after the restore.
C10_RoundTripPersisted ==
    [][ (last' = "relaunch" /\ storage.available) =>
           /\ theme' = theme
           /\ custom_theme_text' = custom_theme_text
           /\ rps' = rps
           /\ show_rhymes' = show_rhymes
           /\ main_text' = main_text
           /\ general_settings' = GeneralSettingsDefault ]_vars

\* a session with a custom theme text holding a newline was saved and restored
C10_Witness ==
    /\ last = "relaunch"
    /\ storage.available
    /\ theme = ThemeCustom
    /\ custom_theme_text = <<"\n">>

\* C11: restoring a payload that lacks a field, at the top level or inside the
\* part-of-speech flag set, gives that field its default and every field (and
\* flag) the payload has its persisted value: nothing else is discarded.
C11_MissingFieldDefaults ==
    (last = "new" /\ storage.available /\ storage.value # None) =>
        LET payload == storage.value[1]
        IN  /\ \A name \in PersistedFields \ {"rps"} :
                 Self[name] = IF name \in DOMAIN payload
                              THEN parse_field(payload, name)[1]
                              ELSE QuickpoeterAppDefault[name]
            /\ \A f \in Flags :
                 rps[f] = IF "rps" \in DOMAIN payload /\ f \in DOMAIN payload.rps
                          THEN payload.rps[f] = "true"
                          ELSE RemovePartsOfSpeechDefault[f]

\* the stage of a submission a logged call belongs to: 1 the word parser,
\* 2 the theme resolver and what it calls, 3 the ranking engine and its arguments
StageOf(op) ==
    IF op = "string2word" THEN 1
    ELSE IF op \in {"mean_theme", "str_themes", "from_str"} THEN 2
    ELSE 3

\* C14: a submission runs the word parser, then the theme resolver, then the
\* ranking engine, and stops at the first failure: on a parse failure the result
\* is the parser's error string unchanged and neither the resolver nor the engine
\* is called; on a theme failure the engine is not called.
C14_StagesInOrder ==
    Submitted =>
        /\ Len(Calls("string2word")) = 1
        /\ \A i \in 1..Len(log) : \A j \in 1..Len(log) :
             i < j => StageOf(log[i].op) <= StageOf(log[j].op)
        /\ ~Calls("string2word")[1].res.ok =>
             /\ Len(log) = 1
             /\ rhyme_output = Err(Calls("string2word")[1].res.val)
        /\ Calls("string2word")[1].res.ok => Len(Calls("mean_theme")) = 1
        /\ \A k \in 1..Len(Calls("mean_theme")) :
             ~Calls("mean_theme")[k].res.ok =>
                 /\ Calls("find") = <<>>
                 /\ Calls("get_list") = <<>>
        /\ Calls("find") # <<>> =>
             /\ Calls("string2word")[1].res.ok
             /\ Calls("mean_theme")[1].res.ok

\* a word that does not parse is submitted while the custom theme is empty, which
\* alone would give the empty-theme error
C14_Witness ==
    /\ Submitted
    /\ theme = ThemeCustom
    /\ custom_theme_text = <<>>
    /\ ~mean_theme(theme, custom_theme_text).res.ok
    /\ ~Calls("string2word")[1].res.ok
    /\ rhyme_output = Err(Calls("string2word")[1].res.val)

\* the call a step makes, when the step is a get_or_render
IsCall == Len(calls') = Len(calls) + 1
TheCall == calls'[Len(calls')]

Entries(cache) == {cache[i] : i \in 1..Len(cache)}

\* C12: get_or_render in the disabled mode creates, removes and reorders no
\* entry: both caches are, contents and recency order, the same before and after
\* the call, whatever the text and whatever came before; it returns the
\* unstyled rendering of the text.
C12_DisabledBypassesCaches ==
    [][ (IsCall /\ TheCall.mode = "No") =>
            /\ cache_highlight' = cache_highlight
            /\ cache_words' = cache_words
            /\ TheCall.out = unstyled(TheCall.text) ]_vars

\* a disabled-mode call for a text the full rhyme-highlight cache does not hold
C12_Witness ==
    /\ calls # <<>>
    /\ calls[Len(calls)].mode = "No"
    /\ calls[Len(calls)].out = unstyled(calls[Len(calls)].text)
    /\ Len(cache_highlight) = Capacity
    /\ calls[Len(calls)].text \notin Keys(cache_highlight)

\* the last call so far that accessed `key` in the rhythm mode (0: none)
LastUse(key) ==
    LET uses == {i \in 1..Len(calls) : calls[i].mode = "Rythm" /\ calls[i].text = key}
    IN  IF uses = {} THEN 0 ELSE CHOOSE i \in uses : \A j \in uses : j <= i

\* the entries of the rhyme-highlight cache whose key was accessed longest ago
LeastRecent ==
    {e \in Entries(cache_highlight) :
        \A o \in Entries(cache_highlight) : LastUse(e.key) <= LastUse(o.key)}

\* C13: no cache ever holds more than Capacity entries; a rhythm-mode call that
\* hits returns the cached value, invokes no renderer and makes the key the most
\* recently used; one that misses renders once, inserts the value and, at
\* capacity, evicts exactly the key accessed least recently (by hit or insert);
\* the plain-word cache is not touched.
C13_LruLaw ==
    [][ /\ Len(cache_highlight') <= Capacity
        /\ Len(cache_words') <= Capacity
        /\ (IsCall /\ TheCall.mode = "Rythm") =>
             /\ cache_words' = cache_words
             /\ cache_highlight'[1].key = TheCall.text
             /\ Cardinality(Keys(cache_highlight')) = Len(cache_highlight')
             /\ IF TheCall.text \in Keys(cache_highlight)
                THEN /\ TheCall.rendered = <<>>
                     /\ [key |-> TheCall.text, value |-> TheCall.out]
                            \in Entries(cache_highlight)
                     /\ Entries(cache_highlight') = Entries(cache_highlight)
                ELSE /\ TheCall.rendered = <<TheCall.text>>
                     /\ TheCall.out \in renderer_results(TheCall.text)
                     /\ Cardinality(LeastRecent) <= 1
                     /\ Entries(cache_highlight') =
                            (Entries(cache_highlight)
                               \ (IF Len(cache_highlight) = Capacity
                                  THEN LeastRecent ELSE {}))
                            \cup {[key |-> TheCall.text, value |-> TheCall.out]} ]_vars

\* three texts in the rhythm mode with the first one hit again before the third
\* arrives at a full cache: the second text, not the first, has been evicted
C13_Witness ==
    /\ Len(calls) = 4
    /\ \A i \in 1..4 : calls[i].mode = "Rythm"
    /\ calls[3].text = calls[1].text
    /\ calls[3].rendered = <<>>
    /\ calls[3].out = calls[1].out
    /\ calls[4].rendered = <<calls[4].text>>
    /\ Keys(cache_highlight) = {calls[4].text, calls[1].text}
    /\ calls[2].text \notin Keys(cache_highlight)
    /\ cache_words = <<>>

====
